---- MODULE Spec2Model ----
(***************************************************************************)
(* axum-connect: the extraction contract (parts.rs) and the service        *)
(* composition builder (routes.rs).                                        *)
(*                                                                         *)
(* Serve phase: every in-flight request owns its request metadata          *)
(* (http::request::Parts); extractors are run on it against the shared     *)
(* application state.  Build phase: Routes builders accumulate services    *)
(* and are finalized into a router or a service.                           *)
(***************************************************************************)
EXTENDS Integers, Sequences, FiniteSets, TLC

VARIABLES
    parts,      \* serve: request id -> the request's metadata (&mut Parts)
    orig,       \* serve: request id -> the metadata as the transport handed it over
    last,       \* serve: request id -> the most recent extraction and its result
    pc,         \* serve: request id -> position inside an extraction
    appState,   \* serve: the shared application state (&S)
    appState0,  \* serve: the application state supplied at startup
    builders,   \* build: builder id -> Routes instance (or its finalized form)
    log         \* build: builder id -> construction and attachment history

vars == <<parts, orig, last, pc, appState, appState0, builders, log>>
serveVars == <<parts, orig, last, pc, appState, appState0>>
buildVars == <<builders, log>>

(***************************************************************************)
(* Bounds                                                                  *)
(***************************************************************************)
MaxHeaders == 2     \* header entries of one request
NReq == 2           \* requests in flight together
MaxBuilders == 2    \* Routes instances alive in the build phase

(***************************************************************************)
(* Values                                                                  *)
(***************************************************************************)
\* Option<T> as a sequence of length 0 (None) or 1 (Some)
None == <<>>
Some(v) == <<v>>
IsSome(o) == Len(o) = 1
Unwrap(o) == o[1]

\* Result<T, E>
NoVal == [type |-> "None"]
NoErr == [type |-> "None"]
Ok(v) == [tag |-> "Ok", val |-> v, err |-> NoErr]
Err(e) == [tag |-> "Err", val |-> NoVal, err |-> e]

\* RpcErrorCode values used by parts.rs
Internal == "Internal"
InvalidArgument == "InvalidArgument"

\* (RpcErrorCode, message).rpc_into_error(): total, keeps code and message
rpc_into_error(code, message) ==
    [type |-> "RpcError", code |-> code, message |-> message]

(***************************************************************************)
(* Request metadata                                                        *)
(***************************************************************************)
\* http::HeaderValue::to_str: Some only when every byte is visible ASCII
is_visible_ascii(b) == (b >= 32 /\ b < 127) \/ b = 9
to_str(value) ==
    IF \A i \in 1..Len(value) : is_visible_ascii(value[i])
    THEN Some(value) ELSE None

\* HeaderMap::get: the first value stored under the name
RECURSIVE headers_get(_, _)
headers_get(headers, name) ==
    IF headers = <<>> THEN None
    ELSE IF Head(headers).name = name THEN Some(Head(headers).value)
    ELSE headers_get(Tail(headers), name)

\* Extensions::get::<T>(): the value stored under the type, if any
extensions_get(extensions, ty) ==
    IF ty \in DOMAIN extensions THEN Some(extensions[ty]) ELSE None

\* Extensions::remove::<T>()
extensions_remove(extensions, ty) ==
    [t \in (DOMAIN extensions) \ {ty} |-> extensions[t]]

\* T::clone
clone(v) == v

\* header values: b"u1", and b"u\xFF" (obs-text, legal in a HeaderValue)
HeaderValues == {<<117, 49>>, <<117, 255>>}
HeaderNames == {"x-user-id", "host"}
HeaderEntries == [name : HeaderNames, value : HeaderValues]
RECURSIVE SeqsUpTo(_, _)
SeqsUpTo(S, n) ==
    IF n = 0 THEN {<<>>}
    ELSE LET shorter == SeqsUpTo(S, n - 1)
         IN shorter \cup {Append(s, x) : s \in {t \in shorter : Len(t) = n - 1}, x \in S}
HeaderMaps == SeqsUpTo(HeaderEntries, MaxHeaders)

\* query strings, as form_urlencoded::parse splits them into pairs
Queries == { <<>>,
             << <<"page", "1">> >>,
             << <<"page", "x">> >>,
             << <<"page", "1">>, <<"page", "2">> >> }
Authorities == {None, Some(<<98>>)}
Methods == {"GET", "POST"}

\* the typed side-channel: TypeId -> attached value
ConnectInfoT == "ConnectInfo<T>"
MockConnectInfoT == "MockConnectInfo<T>"
ExtTypes == {ConnectInfoT, MockConnectInfoT}
Addrs == {"addr1", "addr2"}
ExtensionMaps == UNION {[D -> Addrs] : D \in SUBSET ExtTypes}

PartsSet ==
    [method : Methods,
     uri : [path : {"/test"}, authority : Authorities, query : Queries],
     headers : HeaderMaps,
     extensions : ExtensionMaps]

\* the requests of the concurrent serve phase: they differ in what the
\* ConnectInfo and Query extractors read (no extension, the production
\* one, or the mock; a well-formed or a malformed query)
ConcPartsSet ==
    {p \in PartsSet : /\ p.method = "POST"
                      /\ p.headers = <<>>
                      /\ p.uri.authority = None
                      /\ Len(p.uri.query) = 1
                      /\ DOMAIN p.extensions # ExtTypes
                      /\ \A t \in DOMAIN p.extensions :
                            p.extensions[t] = (IF t = ConnectInfoT THEN "addr1" ELSE "addr2")}

\* ApplicationState and its sub-state
OuterStates == [db : {"db1", "db2"}, cfg : {"cfg1"}]
\* InnerState::from_ref(&OuterState)
from_ref(state) == state.db


(***************************************************************************)
(* The transport's own extractors, as parts.rs calls them                  *)
(***************************************************************************)
\* a transport-specific rejection; Display gives its text
Rejection(type, text) == [type |-> type, text |-> text]
to_string(e) == e.text

\* u32::from_str on the query values in use
parse_u32(s) ==
    CASE s = "1" -> Some(1)
      [] s = "2" -> Some(2)
      [] OTHER -> None

\* serde's derived visitor for a struct with one field, page: u32, fed the
\* pairs in order; seen is the field's Option so far
RECURSIVE deserialize(_, _)
deserialize(pairs, seen) ==
    IF pairs = <<>>
    THEN IF IsSome(seen)
         THEN Ok([type |-> "Pagination", page |-> Unwrap(seen)])
         ELSE Err("missing field 'page'")
    ELSE LET key == Head(pairs)[1]
             value == Head(pairs)[2]
         IN IF key # "page" THEN deserialize(Tail(pairs), seen)
            ELSE IF IsSome(seen) THEN Err("duplicate field 'page'")
            ELSE IF ~IsSome(parse_u32(value))
                 THEN Err("page: invalid digit found in string")
            ELSE deserialize(Tail(pairs), parse_u32(value))

\* axum::extract::Query::<T>::from_request_parts(parts, state)
Query_from_request_parts(p, state) ==
    LET value == deserialize(p.uri.query, None)
    IN [parts |-> p,
        res |-> IF value.tag = "Ok"
                THEN Ok([type |-> "Query", value |-> value.val])
                ELSE Err(Rejection("QueryRejection",
                         "Failed to deserialize query string: " \o value.err))]

\* axum_extra::extract::Host::from_request_parts(parts, state): the Host
\* header when it is a string, else the URI's authority
Host_from_request_parts(p, state) ==
    LET header == headers_get(p.headers, "host")
        host == IF IsSome(header) THEN to_str(Unwrap(header)) ELSE None
    IN [parts |-> p,
        res |-> IF IsSome(host)
                THEN Ok([type |-> "Host", host |-> Unwrap(host)])
                ELSE IF IsSome(p.uri.authority)
                THEN Ok([type |-> "Host", host |-> Unwrap(p.uri.authority)])
                ELSE Err(Rejection("HostRejection", "No host found in request"))]

\* axum::Extension::<T>::from_request_parts(parts, state)
Extension_from_request_parts(p, state, ty) ==
    LET value == extensions_get(p.extensions, ty)
    IN [parts |-> p,
        res |-> IF IsSome(value)
                THEN Ok([type |-> "Extension", inner |-> clone(Unwrap(value))])
                ELSE Err(Rejection("ExtensionRejection",
                         "Missing request extension: Extension of type '"
                         \o ty \o "' was not found. Perhaps you forgot to add it?"
                         \o " See 'axum::Extension'."))]

(***************************************************************************)
(* RpcFromRequestParts implementations (parts.rs)                          *)
(***************************************************************************)
\* impl RpcFromRequestParts for Host
Host_rpc_from_request_parts(p, state) ==
    LET out == Host_from_request_parts(p, state)
    IN [parts |-> out.parts,
        res |-> IF out.res.tag = "Ok" THEN Ok(out.res.val)
                ELSE Err(rpc_into_error(Internal, to_string(out.res.err)))]

\* Query<T> with a malformed query string reported as the client's fault
Query_rpc_invalid_argument(p, state) ==
    LET out == Query_from_request_parts(p, state)
    IN [parts |-> out.parts,
        res |-> IF out.res.tag = "Ok" THEN Ok(out.res.val)
                ELSE Err(rpc_into_error(InvalidArgument, to_string(out.res.err)))]

\* impl RpcFromRequestParts for Query<T>
Query_rpc_from_request_parts(p, state) ==
    LET out == Query_from_request_parts(p, state)
    IN [parts |-> out.parts,
        res |-> IF out.res.tag = "Ok" THEN Ok(out.res.val)
                ELSE Err(rpc_into_error(Internal, to_string(out.res.err)))]

\* ConnectInfo<T> trying the test double before the production extension
ConnectInfo_lookup_mock_first(p, state) ==
    Extension_from_request_parts(p, state, MockConnectInfoT)

\* impl RpcFromRequestParts for ConnectInfo<T>: the scrutinee of the match
ConnectInfo_lookup(p, state) ==
    Extension_from_request_parts(p, state, ConnectInfoT)

\* ... its Ok arm: Ok(Extension(connect_info)) => Ok(connect_info)
ConnectInfo_found(ext) ==
    Ok([type |-> "ConnectInfo", addr |-> ext.inner])

\* the Err arm taking the mock out of the extensions instead of cloning it
ConnectInfo_fallback_take(p, err) ==
    LET mock == extensions_get(p.extensions, MockConnectInfoT)
    IN [parts |-> [p EXCEPT !.extensions = extensions_remove(@, MockConnectInfoT)],
        res |-> IF IsSome(mock)
                THEN Ok([type |-> "ConnectInfo", addr |-> Unwrap(mock)])
                ELSE Err(rpc_into_error(Internal, to_string(err)))]

\* ... its Err arm: the MockConnectInfo<T> extension, else the rejection
ConnectInfo_fallback(p, err) ==
    LET mock == extensions_get(p.extensions, MockConnectInfoT)
    IN [parts |-> p,
        res |-> IF IsSome(mock)
                THEN Ok([type |-> "ConnectInfo", addr |-> clone(Unwrap(mock))])
                ELSE Err(rpc_into_error(Internal, to_string(err)))]

\* State<InnerState> read from a request extension instead of the state
State_rpc_from_extension(p, state) ==
    LET attached == extensions_get(p.extensions, ConnectInfoT)
    IN [parts |-> p,
        res |-> IF IsSome(attached)
                THEN Ok([type |-> "State", inner |-> from_ref(state)])
                ELSE Err(rpc_into_error(Internal, "Missing request extension"))]

\* impl RpcFromRequestParts for State<InnerState>
State_rpc_from_request_parts(p, state) ==
    LET inner_state == from_ref(state)
    IN [parts |-> p,
        res |-> Ok([type |-> "State", inner |-> inner_state])]

\* ExtractUserId defaulting to an empty id when the header is missing
ExtractUserId_rpc_or_default(p, state) ==
    LET header == headers_get(p.headers, "x-user-id")
        user_id == IF IsSome(header) THEN to_str(Unwrap(header)) ELSE None
    IN [parts |-> p,
        res |-> IF IsSome(user_id)
                THEN Ok([type |-> "ExtractUserId", id |-> Unwrap(user_id)])
                ELSE Ok([type |-> "ExtractUserId", id |-> <<>>])]

\* impl RpcFromRequestParts for ExtractUserId (the crate's custom extractor)
ExtractUserId_rpc_from_request_parts(p, state) ==
    LET header == headers_get(p.headers, "x-user-id")
        user_id == IF IsSome(header) THEN to_str(Unwrap(header)) ELSE None
    IN [parts |-> p,
        res |-> IF IsSome(user_id)
                THEN Ok([type |-> "ExtractUserId", id |-> Unwrap(user_id)])
                ELSE Err(rpc_into_error(InvalidArgument, "Missing x-user-id header"))]

\* impl RpcFromRequestParts for ConnectInfo<T>, the whole match
ConnectInfo_rpc_from_request_parts(p, state) ==
    LET out == ConnectInfo_lookup(p, state)
    IN IF out.res.tag = "Ok"
       THEN [parts |-> out.parts, res |-> ConnectInfo_found(out.res.val)]
       ELSE ConnectInfo_fallback(out.parts, out.res.err)

\* <E as RpcFromRequestParts>::rpc_from_request_parts, by extractor type
rpc_from_request_parts(kind, p, state) ==
    CASE kind = "Host" -> Host_rpc_from_request_parts(p, state)
      [] kind = "Query" -> Query_rpc_from_request_parts(p, state)
      [] kind = "ConnectInfo" -> ConnectInfo_rpc_from_request_parts(p, state)
      [] kind = "State" -> State_rpc_from_request_parts(p, state)
      [] kind = "ExtractUserId" -> ExtractUserId_rpc_from_request_parts(p, state)

(***************************************************************************)
(* Serve phase                                                             *)
(***************************************************************************)
NoRes == [tag |-> "None", val |-> NoVal, err |-> NoErr]
Idle == [at |-> "idle", err |-> NoErr]

Reqs == DOMAIN parts

\* an extraction working on one Parts shared by all requests in flight
FinishShared(r, kind, out) ==
    /\ parts' = [q \in Reqs |-> out.parts]
    /\ last' = [last EXCEPT ![r] = [kind |-> kind, res |-> out.res]]

\* one extractor run to completion on request r
Finish(r, kind, out) ==
    /\ parts' = [parts EXCEPT ![r] = out.parts]
    /\ last' = [last EXCEPT ![r] = [kind |-> kind, res |-> out.res]]

ExtractHost(r) ==
    /\ r \in Reqs
    /\ pc[r].at = "idle"
    /\ Finish(r, "Host", Host_rpc_from_request_parts(parts[r], appState))
    /\ UNCHANGED <<orig, pc, appState, appState0, buildVars>>

ExtractQuery(r) ==
    /\ r \in Reqs
    /\ pc[r].at = "idle"
    /\ Finish(r, "Query", Query_rpc_from_request_parts(parts[r], appState))
    /\ UNCHANGED <<orig, pc, appState, appState0, buildVars>>

ExtractState(r) ==
    /\ r \in Reqs
    /\ pc[r].at = "idle"
    /\ Finish(r, "State", State_rpc_from_request_parts(parts[r], appState))
    /\ UNCHANGED <<orig, pc, appState, appState0, buildVars>>

ExtractUserId(r) ==
    /\ r \in Reqs
    /\ pc[r].at = "idle"
    /\ Finish(r, "ExtractUserId",
              ExtractUserId_rpc_from_request_parts(parts[r], appState))
    /\ UNCHANGED <<orig, pc, appState, appState0, buildVars>>

\* ConnectInfo, first step: the Extension lookup and its Ok arm
ExtractConnectInfo(r) ==
    /\ r \in Reqs
    /\ pc[r].at = "idle"
    /\ LET out == ConnectInfo_lookup(parts[r], appState)
       IN IF out.res.tag = "Ok"
          THEN /\ Finish(r, "ConnectInfo",
                         [parts |-> out.parts, res |-> ConnectInfo_found(out.res.val)])
               /\ pc' = pc
          ELSE /\ parts' = [parts EXCEPT ![r] = out.parts]
               /\ pc' = [pc EXCEPT ![r] = [at |-> "fallback", err |-> out.res.err]]
               /\ last' = last
    /\ UNCHANGED <<orig, appState, appState0, buildVars>>

\* ConnectInfo, second step: the Err arm
ConnectInfoFallback(r) ==
    /\ r \in Reqs
    /\ pc[r].at = "fallback"
    /\ Finish(r, "ConnectInfo", ConnectInfo_fallback(parts[r], pc[r].err))
    /\ pc' = [pc EXCEPT ![r] = Idle]
    /\ UNCHANGED <<orig, appState, appState0, buildVars>>

ServeInit(R, P) ==
    /\ parts \in [R -> P]
    /\ orig = parts
    /\ last = [r \in R |-> [kind |-> "none", res |-> NoRes]]
    /\ pc = [r \in R |-> Idle]
    /\ appState \in OuterStates
    /\ appState0 = appState
    /\ builders = <<>>
    /\ log = <<>>

ReqIds == 1..NReq

NextServe ==
    \/ \E r \in ReqIds : ExtractHost(r)
    \/ \E r \in ReqIds : ExtractQuery(r)
    \/ \E r \in ReqIds : ExtractState(r)
    \/ \E r \in ReqIds : ExtractUserId(r)
    \/ \E r \in ReqIds : ExtractConnectInfo(r)
    \/ \E r \in ReqIds : ConnectInfoFallback(r)

\* one request, any metadata, any order of extractors
InitServe == ServeInit({1}, PartsSet)
SpecServe == InitServe /\ [][NextServe]_vars

\* several requests in flight against one application state
InitConc == ServeInit(1..NReq, ConcPartsSet)
SpecConc == InitConc /\ [][NextServe]_vars


(***************************************************************************)
(* Build phase: the dispatch surface                                       *)
(***************************************************************************)
States == {"s1", "s2"}

\* the generated services and the route paths each registers, in order
Services == {"Greeter", "Echo", "GreeterV2"}
service_routes(svc) ==
    CASE svc = "Greeter"   -> <<"/greeter/SayHello", "/greeter/SayBye">>
      [] svc = "Echo"      -> <<"/echo/Echo">>
      [] svc = "GreeterV2" -> <<"/greeter/SayHello">>

Range(seq) == {seq[i] : i \in 1..Len(seq)}

\* axum::Router::new(): no routes
Router_new == [routes |-> <<>>, panicked |-> FALSE]

\* the paths a router accepts, and the endpoint a path is dispatched to
Accepts(router) == {router.routes[i].path : i \in 1..Len(router.routes)}
Dispatch(router, path) ==
    {router.routes[i].service : i \in {j \in 1..Len(router.routes) :
                                          router.routes[j].path = path}}

\* axum::Router::with_state(state): the state is given to the routes the
\* router holds at the call; the result is a router still lacking a state
\* for the routes added later
Router_with_state(router, state) ==
    [router EXCEPT !.routes =
        [i \in 1..Len(router.routes) |->
            IF IsSome(router.routes[i].state) THEN router.routes[i]
            ELSE [router.routes[i] EXCEPT !.state = Some(state)]]]

\* axum::Router::route(path, method_router): panics on a path already taken
Router_route(router, path, svc) ==
    IF router.panicked \/ path \in Accepts(router)
    THEN [routes |-> <<>>, panicked |-> TRUE]
    ELSE [router EXCEPT !.routes =
            Append(@, [path |-> path, service |-> svc, state |-> None])]

\* a generated service's attach function, FnOnce(Router<S>) -> RpcRouter<S>:
\* its own routes merged into the router it is given
RECURSIVE merge_routes(_, _, _)
merge_routes(router, svc, paths) ==
    IF paths = <<>> THEN router
    ELSE merge_routes(Router_route(router, Head(paths), svc), svc, Tail(paths))
attach(svc, router) == merge_routes(router, svc, service_routes(svc))

(***************************************************************************)
(* Routes (routes.rs).  A Routes value is [router]; a builder slot also    *)
(* records whether the value is still owned ("Live"), was consumed by a    *)
(* finalization (form), or was lost to a panic.                            *)
(***************************************************************************)
Unborn == [status |-> "Unborn", form |-> "none", router |-> Router_new]

\* new() starting from a router that already holds a service
Routes_new_prefilled ==
    [status |-> "Live", form |-> "none", router |-> attach("Echo", Router_new)]

\* Routes::new()
Routes_new == [status |-> "Live", form |-> "none", router |-> Router_new]

\* Routes::with_state(state)
Routes_with_state(state) ==
    [status |-> "Live", form |-> "none",
     router |-> Router_with_state(Router_new, state)]

\* add_service handing svc a fresh router instead of the accumulated one
Routes_add_service_fresh(self, svc) ==
    LET router == attach(svc, Router_new)
    IN IF router.panicked
       THEN [status |-> "Panicked", form |-> "none", router |-> Router_new]
       ELSE [self EXCEPT !.router = router]

\* Routes::add_service(self, svc)
Routes_add_service(self, svc) ==
    LET router == attach(svc, self.router)
    IN IF router.panicked
       THEN [status |-> "Panicked", form |-> "none", router |-> Router_new]
       ELSE [self EXCEPT !.router = router]

\* into_router borrowing the builder (&self) instead of consuming it
Routes_into_router_by_ref(self) ==
    [status |-> "Live", form |-> "router", router |-> self.router]

\* Routes::into_router(self)
Routes_into_router(self) ==
    [status |-> "Finalized", form |-> "router", router |-> self.router]

\* Routes::into_service(self): the router wrapped as RouterIntoService
Routes_into_service(self) ==
    [status |-> "Finalized", form |-> "service", router |-> self.router]

\* #[derive(Clone)]
Routes_clone(self) == self

NoLog == [ctor |-> "none", state |-> None, attached |-> <<>>]
BuilderIds == 1..MaxBuilders

New(b) ==
    /\ builders[b].status = "Unborn"
    /\ builders' = [builders EXCEPT ![b] = Routes_new]
    /\ log' = [log EXCEPT ![b] = [ctor |-> "new", state |-> None, attached |-> <<>>]]
    /\ UNCHANGED serveVars

WithState(b, state) ==
    /\ builders[b].status = "Unborn"
    /\ builders' = [builders EXCEPT ![b] = Routes_with_state(state)]
    /\ log' = [log EXCEPT ![b] =
                 [ctor |-> "with_state", state |-> Some(state), attached |-> <<>>]]
    /\ UNCHANGED serveVars

\* self is taken by value: only a value still owned can be passed; a panic
\* in svc unwinds and drops the builder with what it had accumulated
AddService(b, svc) ==
    /\ builders[b].status = "Live"
    /\ builders' = [builders EXCEPT ![b] = Routes_add_service(builders[b], svc)]
    /\ log' = [log EXCEPT ![b].attached =
                  IF builders'[b].status = "Panicked" THEN <<>> ELSE Append(@, svc)]
    /\ UNCHANGED serveVars

IntoRouter(b) ==
    /\ builders[b].status = "Live"
    /\ builders' = [builders EXCEPT ![b] = Routes_into_router(builders[b])]
    /\ UNCHANGED <<log, serveVars>>

IntoService(b) ==
    /\ builders[b].status = "Live"
    /\ builders' = [builders EXCEPT ![b] = Routes_into_service(builders[b])]
    /\ UNCHANGED <<log, serveVars>>

Clone(b, c) ==
    /\ builders[b].status = "Live"
    /\ builders[c].status = "Unborn"
    /\ builders' = [builders EXCEPT ![c] = Routes_clone(builders[b])]
    /\ log' = [log EXCEPT ![c] = log[b]]
    /\ UNCHANGED serveVars

InitBuild ==
    /\ builders = [b \in BuilderIds |-> Unborn]
    /\ log = [b \in BuilderIds |-> NoLog]
    /\ parts = <<>>
    /\ orig = <<>>
    /\ last = <<>>
    /\ pc = <<>>
    /\ appState = [db |-> "db1", cfg |-> "cfg1"]
    /\ appState0 = appState

NextBuild ==
    \/ \E b \in BuilderIds : New(b)
    \/ \E b \in BuilderIds, state \in States : WithState(b, state)
    \/ \E b \in BuilderIds, svc \in Services : AddService(b, svc)
    \/ \E b \in BuilderIds : IntoRouter(b)
    \/ \E b \in BuilderIds : IntoService(b)
    \/ \E b, c \in BuilderIds : Clone(b, c)

SpecBuild == InitBuild /\ [][NextBuild]_vars


(***************************************************************************)
(* Properties of the serve phase                                           *)
(***************************************************************************)
Extracted(r, kind) == last[r].kind = kind
IsRpcError(res) == res.tag = "Err" /\ res.err.type = "RpcError"

\* C1: ConnectInfo extraction returns the production ConnectInfo<T>
\* extension when there is one (also beside a mock), else a ConnectInfo
\* holding the MockConnectInfo<T> payload, else fails with code Internal.
C1_ConnectInfoFallbackOrder ==
    \A r \in Reqs :
        Extracted(r, "ConnectInfo") =>
            LET ext == orig[r].extensions
            IN IF ConnectInfoT \in DOMAIN ext
               THEN last[r].res = Ok([type |-> "ConnectInfo", addr |-> ext[ConnectInfoT]])
               ELSE IF MockConnectInfoT \in DOMAIN ext
               THEN last[r].res = Ok([type |-> "ConnectInfo", addr |-> ext[MockConnectInfoT]])
               ELSE IsRpcError(last[r].res) /\ last[r].res.err.code = Internal

\* both extensions attached, with different payloads, and ConnectInfo extracted
C1_Witness ==
    \E r \in Reqs :
        /\ Extracted(r, "ConnectInfo")
        /\ DOMAIN orig[r].extensions = ExtTypes
        /\ orig[r].extensions[ConnectInfoT] # orig[r].extensions[MockConnectInfoT]
        /\ last[r].res.tag = "Ok"

\* C2 (as claimed): with an x-user-id header of value V, ExtractUserId returns exactly V;
\* without one it fails with InvalidArgument, "Missing x-user-id header".
C2_HeaderRoundTrip ==
    \A r \in Reqs :
        Extracted(r, "ExtractUserId") =>
            LET header == headers_get(orig[r].headers, "x-user-id")
            IN IF IsSome(header)
               THEN last[r].res = Ok([type |-> "ExtractUserId", id |-> Unwrap(header)])
               ELSE last[r].res =
                        Err(rpc_into_error(InvalidArgument, "Missing x-user-id header"))

\* C2 (amended): with an x-user-id header whose (first) value V is made of
\* visible ASCII bytes only, ExtractUserId returns exactly V; in every other
\* case, the header missing or its value not visible ASCII, it fails with
\* InvalidArgument, "Missing x-user-id header".
C2_HeaderRoundTripVisibleAscii ==
    \A r \in Reqs :
        Extracted(r, "ExtractUserId") =>
            LET header == headers_get(orig[r].headers, "x-user-id")
                visible == /\ IsSome(header)
                           /\ \A i \in 1..Len(Unwrap(header)) :
                                 \/ Unwrap(header)[i] \in 32..126
                                 \/ Unwrap(header)[i] = 9
            IN IF visible
               THEN last[r].res = Ok([type |-> "ExtractUserId", id |-> Unwrap(header)])
               ELSE last[r].res =
                        Err(rpc_into_error(InvalidArgument, "Missing x-user-id header"))

\* a request carrying x-user-id twice, the first value visible ASCII and
\* the second not, had its user id extracted
C2_Witness ==
    \E r \in Reqs :
        /\ Extracted(r, "ExtractUserId")
        /\ last[r].res.tag = "Ok"
        /\ Len(orig[r].headers) = 2
        /\ \A i \in 1..2 : orig[r].headers[i].name = "x-user-id"
        /\ orig[r].headers[1].value # orig[r].headers[2].value

\* C3: State<InnerState> extraction is Ok of from_ref of the application
\* state, whatever the request metadata.
C3_StateTotal ==
    \A r \in Reqs :
        Extracted(r, "State") =>
            last[r].res = Ok([type |-> "State", inner |-> from_ref(appState0)])

\* State extracted from a request that no other extractor can serve
C3_Witness ==
    \E r \in Reqs :
        /\ Extracted(r, "State")
        /\ orig[r].headers = <<>>
        /\ orig[r].extensions = <<>>
        /\ orig[r].uri.query = <<>>
        /\ last[r].res.tag = "Ok"

\* the transport's own failure behind a built-in extractor's rejection
Underlying(kind, p, state) ==
    CASE kind = "Host" -> Host_from_request_parts(p, state).res
      [] kind = "Query" -> Query_from_request_parts(p, state).res
      [] kind = "ConnectInfo" ->
            IF MockConnectInfoT \in DOMAIN p.extensions
            THEN Ok(NoVal)
            ELSE Extension_from_request_parts(p, state, ConnectInfoT).res

\* C7: a failure of Host, Query or ConnectInfo is one RpcError with code
\* Internal and the underlying failure's text as its message, and every
\* underlying failure is reported so.
C7_FailuresAreInternal ==
    \A r \in Reqs :
        last[r].kind \in {"Host", "Query", "ConnectInfo"} =>
            LET under == Underlying(last[r].kind, orig[r], appState0)
            IN /\ last[r].res.tag = "Err" <=> under.tag = "Err"
               /\ last[r].res.tag = "Err" =>
                    /\ last[r].res.err.type = "RpcError"
                    /\ last[r].res.err.code = Internal
                    /\ last[r].res.err.message = under.err.text
                    /\ last[r].res.val = NoVal

\* a query string with a field of the wrong type was rejected
C7_Witness ==
    \E r \in Reqs :
        /\ Extracted(r, "Query")
        /\ orig[r].uri.query = << <<"page", "x">> >>
        /\ last[r].res.tag = "Err"

\* C9: extraction leaves the request metadata as it was, so an extractor
\* run after others gives what it gives when run first.
C9_MetadataUntouched ==
    \A r \in Reqs :
        /\ parts[r] = orig[r]
        /\ last[r].kind # "none" =>
              last[r].res = rpc_from_request_parts(last[r].kind, orig[r], appState0).res

\* Query failed on a request, and ConnectInfo then looked up its extension
\* on the same request and is about to fall back to the mock
C9_Witness ==
    \E r \in Reqs :
        /\ Extracted(r, "Query")
        /\ last[r].res.tag = "Err"
        /\ pc[r].at = "fallback"
        /\ MockConnectInfoT \in DOMAIN orig[r].extensions

\* C10: with several requests in flight, every outcome is that of the
\* request's own metadata and the application state, which no extraction
\* changes; requests with equal metadata get equal outcomes.
C10_RequestsIsolated ==
    /\ appState = appState0
    /\ \A r \in Reqs :
          /\ last[r].kind # "none" =>
                last[r].res =
                    rpc_from_request_parts(last[r].kind, orig[r], appState0).res
          /\ \A q \in Reqs :
                (orig[q] = orig[r] /\ last[q].kind = last[r].kind) =>
                    last[q].res = last[r].res

\* one request failed while another, with other metadata, is in the middle
\* of its own ConnectInfo extraction after a successful Query
C10_Witness ==
    \E r, q \in Reqs :
        /\ r # q
        /\ Extracted(r, "ConnectInfo") /\ last[r].res.tag = "Err"
        /\ Extracted(q, "Query") /\ last[q].res.tag = "Ok"
        /\ pc[q].at = "fallback"
        /\ MockConnectInfoT \in DOMAIN orig[q].extensions

(***************************************************************************)
(* Properties of the build phase                                           *)
(***************************************************************************)
Usable(b) == builders[b].status \in {"Live", "Finalized"}
Contributed(b) == UNION {Range(service_routes(svc)) : svc \in Range(log[b].attached)}

\* C4: without colliding routes, the surface a builder holds and hands out
\* (as router or as service) accepts exactly the routes of the attached
\* services, each dispatched to its service, whatever the attachment order.
C4_UnionOfRoutes ==
    \A b \in BuilderIds :
        Usable(b) =>
            /\ Accepts(builders[b].router) = Contributed(b)
            /\ \A c \in BuilderIds :
                  (Usable(c) /\ Range(log[c].attached) = Range(log[b].attached)) =>
                      /\ Accepts(builders[c].router) = Accepts(builders[b].router)
                      /\ \A path \in Accepts(builders[b].router) :
                            Dispatch(builders[c].router, path) =
                                Dispatch(builders[b].router, path)

\* the same two services attached in opposite orders, one builder finalized
\* as a router and the other as a service
C4_Witness ==
    \E b, c \in BuilderIds :
        /\ builders[b].form = "router"
        /\ builders[c].form = "service"
        /\ Len(log[b].attached) = 2
        /\ log[c].attached = <<log[b].attached[2], log[b].attached[1]>>
        /\ log[b].attached[1] # log[b].attached[2]

\* C5: a builder made by with_state(s) serves the services attached after
\* construction with s.
C5_StateHeld ==
    \A b \in BuilderIds :
        (log[b].ctor = "with_state" /\ builders[b].form # "none") =>
            \A i \in 1..Len(builders[b].router.routes) :
                builders[b].router.routes[i].state = log[b].state

\* C6: a builder is finalized from the live state only, in one form, and a
\* finalized builder takes no further step.
C6_FinalizedIsTerminal ==
    [][\A b \in BuilderIds :
          /\ builders[b].form # "none" =>
                (builders'[b] = builders[b] /\ log'[b] = log[b])
          /\ (builders[b].form = "none" /\ builders'[b].form # "none") =>
                (builders[b].status = "Live" /\ builders'[b].status = "Finalized")
          /\ builders'[b].status = "Finalized" <=> builders'[b].form # "none"]_vars

\* a finalized builder beside a clone of it that went on attaching
C6_Witness ==
    \E b, c \in BuilderIds :
        /\ builders[b].form = "router"
        /\ builders[c].status = "Live"
        /\ log[b].attached # <<>>
        /\ Len(log[c].attached) > Len(log[b].attached)
        /\ SubSeq(log[c].attached, 1, Len(log[b].attached)) = log[b].attached

\* C8: Routes::new() finalized by into_router() with no service attached
\* accepts no route.
C8_EmptyBuilder ==
    \A b \in BuilderIds :
        (log[b].ctor = "new" /\ log[b].attached = <<>> /\ builders[b].form = "router") =>
            Accepts(builders[b].router) = {}

\* new() followed directly by into_router()
C8_Witness ==
    \E b \in BuilderIds :
        /\ log[b].ctor = "new"
        /\ log[b].attached = <<>>
        /\ builders[b].form = "router"

====
